---------------------------- MODULE Spec2Model ----------------------------
(***************************************************************************)
(* A model of the pagination + extraction pipeline of the Instagram mixed  *)
(* media downloader (src/src/extractors/graphql_extractor.py) and of its   *)
(* file downloader (src/src/downloaders/media_downloader.py).              *)
(*                                                                         *)
(* Python values are encoded as follows.                                   *)
(*   - a dict is a TLA+ function on the set of its keys; d.get(k, default) *)
(*     is Get(d, k, default); the empty dict is EmptyDict;                 *)
(*   - a list is a sequence;                                               *)
(*   - None in a string-valued position (a url, a cursor) is the string    *)
(*     None; None where a dict is expected (a JSON null) is NoneDict;      *)
(*   - fields of a descriptor that the extractor only copies through       *)
(*     (width, height, post_id, has_audio, product_type, video_type) take  *)
(*     no part in any branch and are left out;                             *)
(*   - an exception is the value Raise where a dict is returned, and a     *)
(*     predicate (Raises, CandidatesRaise, SelectRaises) elsewhere.        *)
(*                                                                         *)
(* The module holds one specification per component:                       *)
(*   SpecFetch    fetch_user_posts      (the paginator, one action per     *)
(*                                       page request)                     *)
(*   SpecSelect   select_best_video_quality                                *)
(*   SpecDedup    _remove_duplicates                                       *)
(*   SpecExtract  extract_media_from_posts                                 *)
(*   SpecDetect   detect_media_type                                        *)
(*   SpecDownload download_all_media (one action per call of               *)
(*                download_media_item); the download folder is the set of  *)
(*                the names of its files                                   *)
(*   SpecRetry    download_with_retry called on its own                    *)
(* SpecFetchFair is SpecFetch with the fairness its termination needs.     *)
(* Each one leaves the variables of the other components at their idle     *)
(* values.                                                                 *)
(***************************************************************************)
EXTENDS Integers, Sequences, FiniteSets, TLC

VARIABLES
    \* ---- fetch_user_posts
    max_pages,      \* the max_pages argument
    page,           \* the loop counter `page`
    after_cursor,   \* the cursor sent with the next request
    all_posts,      \* the accumulator, returned at the end
    fpc,            \* "idle" | "loop" | "done" (all_posts returned)
    requests,       \* the page requests issued so far, with their responses
    \* ---- select_best_video_quality
    video_versions, \* argument: the rendition list
    preference,     \* argument: the preference
    selected,       \* the value returned
    spc,            \* "idle" | "call" | "done"
    \* ---- _remove_duplicates
    media_list,     \* argument
    unique_media,   \* the value returned
    dpc,            \* "idle" | "call" | "done"
    \* ---- extract_media_from_posts
    posts,          \* argument: the raw posts
    video_settings, \* argument: the settings dict
    manifest,       \* the value returned
    epc,            \* "idle" | "call" | "done"
    \* ---- detect_media_type
    detect_node,    \* argument: the node (post_node)
    detected,       \* the value returned, or the exception raised
    tpc,            \* "idle" | "call" | "done"
    \* ---- MediaDownloader
    files,          \* the names of the files of the download folder
    media_data,     \* argument of download_all_media: the manifest
    item_no,        \* the item the loops of download_all_media are at
    counts,         \* successful_images, successful_videos, failed
    results,        \* the value download_all_media returns
    processed,      \* the items handed to download_with_retry so far
    retry_item,     \* argument of download_with_retry (media_item)
    max_retries,    \* argument of download_with_retry
    attempt,        \* the loop variable of download_with_retry
    retry_result,   \* the value download_with_retry returns
    calls,          \* calls of download_media_item in this download_with_retry
    successes,      \* ... and how many of them returned True
    last,           \* the last call of download_media_item: the transfer,
                    \* its result, the files before it, the planned name
    caller,         \* the method that was called from outside
    wpc,            \* "idle" | "next" | "retry" | "retried" | "done"
    \* ---- InstagramDownloader.run
    run_steps,      \* the steps begun so far: "fetch", "extract", "download"
    run_result,     \* the value returned
    rpc             \* "idle" | "fetch" | "extract" | "download" |
                    \* "downloading" | "done"

fetchVars   == <<max_pages, page, after_cursor, all_posts, fpc, requests>>
selectVars  == <<video_versions, preference, selected, spc>>
dedupVars   == <<media_list, unique_media, dpc>>
extractVars == <<posts, video_settings, manifest, epc>>
detectVars  == <<detect_node, detected, tpc>>
downloadVars == <<files, media_data, item_no, counts, results, processed,
                  retry_item, max_retries, attempt, retry_result, calls,
                  successes, last, caller, wpc>>
runVars     == <<run_steps, run_result, rpc>>
vars        == <<fetchVars, selectVars, dedupVars, extractVars, detectVars,
                 downloadVars, runVars>>

-----------------------------------------------------------------------------
(* Bounds of the model *)

MaxPages == 3
MaxEdges == 2
MaxRenditions == 3
MaxItems == 4
MaxMedia == 3
MaxCode == 9
MaxDownloads == 2
MaxRetries == 4
MaxRunPosts == 2

-----------------------------------------------------------------------------
(* Python values *)

None      == "<None>"
NoneDict  == [none |-> TRUE]
EmptyDict == [k \in {} |-> TRUE]

\* d.get(k, default)
Get(d, k, default) == IF k \in DOMAIN d THEN d[k] ELSE default

\* truth value of a str-or-None
Truthy(s) == s # None /\ s # ""

\* whether x.get(...) raises, x being None instead of a dict
Raises(x) == x = NoneDict

\* truth value of a dict-or-None
TruthyDict(d) == d # NoneDict /\ DOMAIN d # {}

-----------------------------------------------------------------------------
(* fetch_user_posts *)

\* The edges of a page are opaque to the paginator: the j-th edge of the
\* response to the request for page p is named by the pair.
EdgesOf(p, n) == [j \in 1..n |-> [page |-> p, idx |-> j]]

\* The cursor a response hands out is opaque too.
CursorOf(p) == "cursor" \o ToString(p)

PageInfos(p) ==
    {NoneDict, EmptyDict}
    \cup {[has_next_page |-> b] : b \in BOOLEAN}
    \cup {[has_next_page |-> b, end_cursor |-> c] :
              b \in BOOLEAN, c \in {"", CursorOf(p)}}

\* What session.post(...) can come back with for the request of page p:
\*   request_error  the call raises (timeout, connection error)
\*   status         a response whose status_code is not 200
\*   bad_json       status 200, response.json() raises
\*   null_data      status 200, the body decodes but "data" is null
\*   page           status 200 and a timeline connection
Responses(p) ==
    {[kind |-> "request_error"], [kind |-> "bad_json"], [kind |-> "null_data"]}
    \cup {[kind |-> "status", status_code |-> s] : s \in {429, 500}}
    \cup {[kind |-> "page", edges |-> EdgesOf(p, n), page_info |-> pi] :
              n \in 0..MaxEdges, pi \in PageInfos(p)}

WhileCondOffByOne(p, mp) == p <= mp + 1

\* line 203: while page <= max_pages
WhileCond(p, mp) == p <= mp

NoMorePagesCursorOnly(has_next_page, cursor) == ~Truthy(cursor)

NoMorePagesFlagOnly(has_next_page, cursor) == ~has_next_page

\* line 273: if not has_next_page or not after_cursor
NoMorePages(has_next_page, cursor) == ~has_next_page \/ ~Truthy(cursor)

HandlePagePrepending(resp, acc, cursor) ==
    IF Len(resp.edges) > 0
    THEN IF resp.page_info = NoneDict
         THEN [all_posts |-> resp.edges \o acc, after_cursor |-> cursor,
               brk |-> TRUE]
         ELSE LET has_next_page == Get(resp.page_info, "has_next_page", FALSE)
                  end_cursor    == Get(resp.page_info, "end_cursor", None)
              IN  [all_posts |-> resp.edges \o acc, after_cursor |-> end_cursor,
                   brk |-> NoMorePages(has_next_page, end_cursor)]
    ELSE [all_posts |-> acc, after_cursor |-> cursor, brk |-> TRUE]

HandlePageSkippingEmpty(resp, acc, cursor) ==
    IF resp.page_info = NoneDict
    THEN [all_posts |-> acc \o resp.edges, after_cursor |-> cursor, brk |-> TRUE]
    ELSE LET has_next_page == Get(resp.page_info, "has_next_page", FALSE)
             end_cursor    == Get(resp.page_info, "end_cursor", None)
         IN  [all_posts |-> acc \o resp.edges, after_cursor |-> end_cursor,
              brk |-> NoMorePages(has_next_page, end_cursor)]

\* lines 260-278: the handling of a status-200 body that decoded
HandlePage(resp, acc, cursor) ==
    IF Len(resp.edges) > 0
    THEN IF resp.page_info = NoneDict
         THEN \* page_info.get raises after all_posts.extend(edges)
              [all_posts |-> acc \o resp.edges, after_cursor |-> cursor,
               brk |-> TRUE]
         ELSE LET has_next_page == Get(resp.page_info, "has_next_page", FALSE)
                  end_cursor    == Get(resp.page_info, "end_cursor", None)
              IN  [all_posts |-> acc \o resp.edges, after_cursor |-> end_cursor,
                   brk |-> NoMorePages(has_next_page, end_cursor)]
    ELSE [all_posts |-> acc, after_cursor |-> cursor, brk |-> TRUE]

HandleResponseRetrying(resp, acc, cursor) ==
    IF resp.kind = "page"
    THEN HandlePage(resp, acc, cursor)
    ELSE [all_posts |-> acc, after_cursor |-> cursor, brk |-> FALSE]

\* lines 252-285: the try block of one loop iteration. Every failure (the
\* request raising, a status other than 200, a body that does not decode)
\* ends in a break.
HandleResponse(resp, acc, cursor) ==
    IF resp.kind = "page"
    THEN HandlePage(resp, acc, cursor)
    ELSE [all_posts |-> acc, after_cursor |-> cursor, brk |-> TRUE]

\* lines 196-201: the call, up to the loop
FetchStart ==
    /\ fpc = "idle"
    /\ \E mp \in -1..MaxPages : max_pages' = mp
    /\ all_posts' = <<>>
    /\ after_cursor' = None
    /\ page' = 1
    /\ fpc' = "loop"
    /\ requests' = <<>>
    /\ UNCHANGED <<selectVars, dedupVars, extractVars, detectVars, downloadVars, runVars>>

\* lines 203-288: one iteration of the loop, one page request
FetchPage ==
    /\ fpc = "loop"
    /\ WhileCond(page, max_pages)
    /\ \E resp \in Responses(page) :
          LET r == HandleResponse(resp, all_posts, after_cursor) IN
          /\ requests' = Append(requests,
                 [page |-> page, after |-> after_cursor, response |-> resp])
          /\ all_posts' = r.all_posts
          /\ after_cursor' = r.after_cursor
          /\ IF r.brk
             THEN page' = page /\ fpc' = "done"
             ELSE page' = page + 1 /\ fpc' = "loop"
    /\ UNCHANGED <<max_pages, selectVars, dedupVars, extractVars, detectVars, downloadVars, runVars>>

\* lines 203, 290-291: the loop condition fails, all_posts is returned
FetchReturn ==
    /\ fpc = "loop"
    /\ ~WhileCond(page, max_pages)
    /\ fpc' = "done"
    /\ UNCHANGED <<max_pages, page, after_cursor, all_posts, requests>>
    /\ UNCHANGED <<selectVars, dedupVars, extractVars, detectVars, downloadVars, runVars>>

-----------------------------------------------------------------------------
(* select_best_video_quality *)

PriorityMediumAsHighest(pref) == <<103, 102, 101>>

\* lines 67-73: priority.get(preference, [103, 102, 101])
Priority(pref) ==
    CASE pref = "highest" -> <<103, 102, 101>>
      [] pref = "medium"  -> <<102, 103, 101>>
      [] pref = "lowest"  -> <<101, 102, 103>>
      [] OTHER            -> <<103, 102, 101>>

\* line 74: v.get('type') == type_id
HasType(v, type_id) == "type" \in DOMAIN v /\ v["type"] = type_id

\* line 74: next((v for v in video_versions if v.get('type') == type_id), None)
NextWithType(versions, type_id) ==
    LET hits == {j \in 1..Len(versions) : HasType(versions[j], type_id)}
    IN  IF hits = {}
        THEN NoneDict
        ELSE versions[CHOOSE j \in hits : \A h \in hits : j <= h]

\* lines 73-77: the loop over the priority list from its i-th entry on,
\* then the fallback to the first rendition
RECURSIVE SelectFrom(_, _, _)
SelectFrom(versions, prio, i) ==
    IF i > Len(prio)
    THEN IF versions # <<>> THEN versions[1] ELSE NoneDict
    ELSE LET video == NextWithType(versions, prio[i])
         IN  IF TruthyDict(video)
             THEN video
             ELSE SelectFrom(versions, prio, i + 1)

\* line 74: v.get raises on a rendition that is null; the scan for the first
\* type code of the priority list reaches it unless a rendition of that type
\* comes first
SelectRaises(versions, pref) ==
    \E j \in 1..Len(versions) :
        /\ Raises(versions[j])
        /\ \A h \in 1..(j - 1) : ~HasType(versions[h], Priority(pref)[1])

\* lines 65-77, when no rendition makes it raise
select_best_video_quality(versions, pref) ==
    SelectFrom(versions, Priority(pref), 1)

\* The renditions of the model: a type code (103, 102, 101, or one that no
\* priority list names) or none, a url or none; the empty dict.
Renditions ==
    {[type |-> t, url |-> u] : t \in {101, 102, 103, 104}, u \in {"v1", "v2"}}
    \cup {[url |-> u] : u \in {"v1", "v2"}}
    \cup {EmptyDict}

Preferences == {"highest", "medium", "lowest", "ultra"}

SeqsUpTo(S, n) == UNION {[1..k -> S] : k \in 0..n}

SelectCall ==
    /\ spc = "idle"
    /\ \E vv \in SeqsUpTo(Renditions, MaxRenditions), pref \in Preferences :
          /\ video_versions' = vv
          /\ preference' = pref
    /\ spc' = "call"
    /\ UNCHANGED <<selected, fetchVars, dedupVars, extractVars, detectVars, downloadVars, runVars>>

SelectReturn ==
    /\ spc = "call"
    /\ selected' = select_best_video_quality(video_versions, preference)
    /\ spc' = "done"
    /\ UNCHANGED <<video_versions, preference, fetchVars, dedupVars, extractVars, detectVars, downloadVars, runVars>>

-----------------------------------------------------------------------------
(* _remove_duplicates *)

\* line 187: item.get('url')
Url(item) == Get(item, "url", None)

RECURSIVE RemoveFromKeepingAll(_, _, _, _)
RemoveFromKeepingAll(items, i, seen_urls, unique) ==
    IF i > Len(items)
    THEN unique
    ELSE IF Truthy(Url(items[i]))
         THEN RemoveFromKeepingAll(items, i + 1, seen_urls, Append(unique, items[i]))
         ELSE RemoveFromKeepingAll(items, i + 1, seen_urls, unique)

RECURSIVE RemoveFromForgetting(_, _, _, _)
RemoveFromForgetting(items, i, seen_urls, unique) ==
    IF i > Len(items)
    THEN unique
    ELSE LET url == Url(items[i])
         IN  IF Truthy(url) /\ url \notin seen_urls
             THEN RemoveFromForgetting(items, i + 1, seen_urls \cup {url},
                                       Append(unique, items[i]))
             ELSE RemoveFromForgetting(items, i + 1, seen_urls \ {url}, unique)

RECURSIVE RemoveFromReversing(_, _, _, _)
RemoveFromReversing(items, i, seen_urls, unique) ==
    IF i > Len(items)
    THEN unique
    ELSE LET url == Url(items[i])
         IN  IF Truthy(url) /\ url \notin seen_urls
             THEN RemoveFromReversing(items, i + 1, seen_urls \cup {url},
                                      <<items[i]>> \o unique)
             ELSE RemoveFromReversing(items, i + 1, seen_urls, unique)

\* lines 186-192: the loop from the i-th item on, and the return
RECURSIVE RemoveFrom(_, _, _, _)
RemoveFrom(items, i, seen_urls, unique) ==
    IF i > Len(items)
    THEN unique
    ELSE LET url == Url(items[i])
         IN  IF Truthy(url) /\ url \notin seen_urls
             THEN RemoveFrom(items, i + 1, seen_urls \cup {url},
                             Append(unique, items[i]))
             ELSE RemoveFrom(items, i + 1, seen_urls, unique)

KeepAllItems(items) == items

\* lines 181-192
remove_duplicates(items) == RemoveFrom(items, 1, {}, <<>>)

\* The items of the model: descriptors with a url, an empty url or None,
\* told apart by post_index, and a dict with no url key.
Items ==
    {[url |-> u, type |-> "image", post_index |-> p, media_index |-> 1] :
         u \in {"a", "b", "", None}, p \in 1..2}
    \cup {[type |-> "image"]}

DedupCall ==
    /\ dpc = "idle"
    /\ \E l \in SeqsUpTo(Items, MaxItems) : media_list' = l
    /\ dpc' = "call"
    /\ UNCHANGED <<unique_media, fetchVars, selectVars, extractVars, detectVars, downloadVars, runVars>>

DedupReturn ==
    /\ dpc = "call"
    /\ unique_media' = remove_duplicates(media_list)
    /\ dpc' = "done"
    /\ UNCHANGED <<media_list, fetchVars, selectVars, extractVars, detectVars, downloadVars, runVars>>

-----------------------------------------------------------------------------
(* extract_media_from_posts *)

\* The value that stands for "the call raised".
Raise == [raise |-> TRUE]

DetectDefaultUnknown(post_node) ==
    IF "media_type" \notin DOMAIN post_node
    THEN "unknown"
    ELSE CASE post_node.media_type = 1 -> "image"
           [] post_node.media_type = 2 -> "video"
           [] post_node.media_type = 8 -> "carousel"
           [] OTHER                    -> "unknown"

\* lines 60-63, for a node that is a dict (on None, post_node.get raises:
\* see Raises)
detect_media_type(post_node) ==
    LET media_type == Get(post_node, "media_type", 1)
    IN  CASE media_type = 1 -> "image"
          [] media_type = 2 -> "video"
          [] media_type = 8 -> "carousel"
          [] OTHER          -> "unknown"

\* The nodes detect_media_type is called with: a type code from 0 to MaxCode
\* or none, alone or next to the media fields a node of the feed carries;
\* and None.
DetectNodes ==
    LET Bodies == {EmptyDict,
                   [image_versions2 |-> [candidates |-> <<[url |-> "a"]>>]],
                   [video_versions |-> <<[type |-> 101, url |-> "v1"]>>],
                   [carousel_media |-> <<[media_type |-> 1]>>],
                   [image_versions2 |-> [candidates |-> <<[url |-> "a"]>>],
                    video_versions |-> <<[type |-> 101, url |-> "v1"]>>]}
        Coded(body, c) == [k \in DOMAIN body \cup {"media_type"} |->
                              IF k = "media_type" THEN c ELSE body[k]]
    IN  Bodies
        \cup {Coded(body, c) : body \in Bodies, c \in 0..MaxCode}
        \cup {NoneDict}

DetectCall ==
    /\ tpc = "idle"
    /\ \E n \in DetectNodes : detect_node' = n
    /\ tpc' = "call"
    /\ UNCHANGED <<detected, fetchVars, selectVars, dedupVars, extractVars, downloadVars, runVars>>

\* lines 60-63; on None, line 62 raises ('NoneType' object has no attribute
\* 'get')
DetectReturn ==
    /\ tpc = "call"
    /\ detected' = IF Raises(detect_node)
                   THEN "AttributeError"
                   ELSE detect_media_type(detect_node)
    /\ tpc' = "done"
    /\ UNCHANGED <<detect_node, fetchVars, selectVars, dedupVars, extractVars, downloadVars, runVars>>

\* lines 136, 163: whether node.get('image_versions2', {}).get(...) raises,
\* image_versions2 being null
CandidatesRaise(node) == Get(node, "image_versions2", EmptyDict) = NoneDict

\* lines 136, 163: node.get('image_versions2', {}).get('candidates', [])
Candidates(node) ==
    Get(Get(node, "image_versions2", EmptyDict), "candidates", <<>>)

\* lines 134-149
extract_image_data(node, post_index, media_index) ==
    IF CandidatesRaise(node) THEN Raise
    ELSE LET image_versions == Candidates(node)
         IN  IF Len(image_versions) = 0 THEN NoneDict
              ELSE [url         |-> Get(image_versions[1], "url", None),
                    type        |-> "image",
                    post_index  |-> post_index,
                    media_index |-> media_index]

\* lines 151-179
extract_video_data(node, post_index, settings, media_index) ==
    LET versions == Get(node, "video_versions", <<>>)
        quality  == Get(settings, "video_quality", "highest")
    IN  IF Len(versions) = 0 THEN NoneDict
        ELSE IF SelectRaises(versions, quality) THEN Raise
        ELSE LET best_video == select_best_video_quality(versions, quality)
                 image_versions == Candidates(node)
             IN  IF ~TruthyDict(best_video) THEN NoneDict
                 ELSE IF CandidatesRaise(node) THEN Raise
                 ELSE [url           |-> Get(best_video, "url", None),
                       type          |-> "video",
                       thumbnail_url |-> IF Len(image_versions) > 0
                                         THEN Get(image_versions[1], "url", None)
                                         ELSE None,
                       post_index    |-> post_index,
                       media_index   |-> media_index]

DownloadVideosAlways(settings) == TRUE

\* lines 97, 113: video_settings.get('download_videos', True)
DownloadVideos(settings) == Get(settings, "download_videos", TRUE)

MediaIndexZeroBased(position) == position - 1

\* line 105: enumerate(carousel_media, 1)
MediaIndex(position) == position

ExtractNodeRejectingUnknown(node, media_type, post_index, media_index, images, videos, settings) ==
    IF media_type = "image"
    THEN LET image_data == extract_image_data(node, post_index, media_index)
         IN  IF image_data = Raise
             THEN [images |-> images, videos |-> videos, raised |-> TRUE]
             ELSE IF TruthyDict(image_data)
             THEN [images |-> Append(images, image_data), videos |-> videos,
                   raised |-> FALSE]
             ELSE [images |-> images, videos |-> videos, raised |-> FALSE]
    ELSE IF media_type = "video" /\ DownloadVideos(settings)
    THEN LET video_data == extract_video_data(node, post_index, settings,
                                              media_index)
         IN  IF video_data = Raise
             THEN [images |-> images, videos |-> videos, raised |-> TRUE]
             ELSE IF TruthyDict(video_data)
             THEN [images |-> images, videos |-> Append(videos, video_data),
                   raised |-> FALSE]
             ELSE [images |-> images, videos |-> videos, raised |-> FALSE]
    ELSE [images |-> images, videos |-> videos,
          raised |-> media_type \notin {"image", "video"}]

\* lines 92-100 and 108-116: the image / video branches for one node, given
\* its media type (a child of type carousel or unknown takes neither); the
\* lists after the node, and whether it raised
ExtractNode(node, media_type, post_index, media_index, images, videos, settings) ==
    IF media_type = "image"
    THEN LET image_data == extract_image_data(node, post_index, media_index)
         IN  IF image_data = Raise
             THEN [images |-> images, videos |-> videos, raised |-> TRUE]
             ELSE IF TruthyDict(image_data)
             THEN [images |-> Append(images, image_data), videos |-> videos,
                   raised |-> FALSE]
             ELSE [images |-> images, videos |-> videos, raised |-> FALSE]
    ELSE IF media_type = "video" /\ DownloadVideos(settings)
    THEN LET video_data == extract_video_data(node, post_index, settings,
                                              media_index)
         IN  IF video_data = Raise
             THEN [images |-> images, videos |-> videos, raised |-> TRUE]
             ELSE IF TruthyDict(video_data)
             THEN [images |-> images, videos |-> Append(videos, video_data),
                   raised |-> FALSE]
             ELSE [images |-> images, videos |-> videos, raised |-> FALSE]
    ELSE [images |-> images, videos |-> videos, raised |-> FALSE]

\* lines 105-116: the loop over the carousel's children from the i-th on. An
\* exception leaves the loop with what was appended so far.
RECURSIVE ExtractCarousel(_, _, _, _, _, _)
ExtractCarousel(carousel_media, i, post_index, images, videos, settings) ==
    IF i > Len(carousel_media)
    THEN [images |-> images, videos |-> videos, raised |-> FALSE]
    ELSE IF Raises(carousel_media[i])
    THEN [images |-> images, videos |-> videos, raised |-> TRUE]
    ELSE LET carousel_type == detect_media_type(carousel_media[i])
             r == ExtractNode(carousel_media[i], carousel_type, post_index,
                              MediaIndex(i), images, videos, settings)
         IN  IF r.raised THEN r
             ELSE ExtractCarousel(carousel_media, i + 1, post_index,
                                  r.images, r.videos, settings)

\* lines 86-116: the try block for one post
ProcessPost(post, post_index, images, videos, settings) ==
    IF Raises(post) \/ Raises(Get(post, "node", EmptyDict))
    THEN [images |-> images, videos |-> videos, raised |-> TRUE]
    ELSE LET node       == Get(post, "node", EmptyDict)
             media_type == detect_media_type(node)
         IN  IF media_type = "carousel"
             THEN ExtractCarousel(Get(node, "carousel_media", <<>>), 1,
                                  post_index, images, videos, settings)
             ELSE ExtractNode(node, media_type, post_index, 1, images, videos,
                              settings)

IndexAfterErrorStuck(post_index) == post_index

\* line 122: post_index += 1 in the except branch
IndexAfterError(post_index) == post_index + 1

\* lines 85-132: the loop over the posts from the i-th on, then the
\* deduplication and the return
RECURSIVE ExtractFrom(_, _, _, _, _, _)
ExtractFrom(post_list, i, post_index, images, videos, settings) ==
    IF i > Len(post_list)
    THEN [images |-> remove_duplicates(images),
          videos |-> remove_duplicates(videos)]
    ELSE LET r == ProcessPost(post_list[i], post_index, images, videos, settings)
         IN  ExtractFrom(post_list, i + 1,
                         IF r.raised THEN IndexAfterError(post_index)
                                     ELSE post_index + 1,
                         r.images, r.videos, settings)

\* lines 79-132
extract_media_from_posts(post_list, settings) ==
    ExtractFrom(post_list, 1, 1, <<>>, <<>>, settings)

\* ---- the inputs of the model

ImageNode(u) == [media_type |-> 1,
                 image_versions2 |-> [candidates |-> <<[url |-> u]>>]]

\* the nodes that occur as a post's node or as a carousel child
ImgA  == ImageNode("a")
ImgB  == [image_versions2 |-> [candidates |-> <<[url |-> "b"]>>]]
Vid   == [media_type |-> 2,
          video_versions |-> <<[type |-> 101, url |-> "v1"],
                               [type |-> 103, url |-> "v2"]>>,
          image_versions2 |-> [candidates |-> <<[url |-> "t"]>>]]
Vid2  == [media_type |-> 2, video_versions |-> <<[type |-> 102, url |-> "v3"]>>]
VidNullThumb == [media_type |-> 2,
                 video_versions |-> <<[type |-> 103, url |-> "v4"]>>,
                 image_versions2 |-> NoneDict]
VidNullRendition == [media_type |-> 2, video_versions |-> <<NoneDict>>]
ImgNoUrl  == [media_type |-> 1,
              image_versions2 |-> [candidates |-> <<EmptyDict>>]]
ImgEmpty  == [media_type |-> 1]
VidNoUrl  == [media_type |-> 2, video_versions |-> <<[type |-> 103]>>]
Unknown   == [media_type |-> 5]
Nested    == [media_type |-> 8, carousel_media |-> <<ImgA>>]

Children == {ImgA, ImgB, Vid, Vid2, VidNullRendition, Unknown, Nested}

LeafNodes == {ImgA, ImgNoUrl, ImgEmpty, Vid, VidNoUrl, VidNullThumb, Unknown,
              NoneDict}

CarouselPost(children) ==
    [node |-> [media_type |-> 8, carousel_media |-> children]]

\* The posts that count for w media items: a post with a single node, a
\* carousel with w children (an empty carousel counts for one).
PostsOfWeight(w) ==
    {CarouselPost(cs) : cs \in [1..w -> Children]}
    \cup (IF w = 1
          THEN {[node |-> n] : n \in LeafNodes} \cup {CarouselPost(<<>>)}
          ELSE {})

\* The number of media items a post list counts for.
RECURSIVE Weight(_)
Weight(post_list) ==
    IF post_list = <<>>
    THEN 0
    ELSE LET p == post_list[Len(post_list)]
             n == IF p = NoneDict \/ p.node = NoneDict
                  THEN 1
                  ELSE Len(Get(p.node, "carousel_media", <<>>))
         IN  Weight(SubSeq(post_list, 1, Len(post_list) - 1))
                 + (IF n = 0 THEN 1 ELSE n)

Settings ==
    {[video_quality |-> "lowest"],
     [download_videos |-> TRUE, video_quality |-> "highest"],
     [download_videos |-> FALSE, video_quality |-> "highest"]}

\* The caller's argument: the fetched posts, one more post at a time, up to
\* MaxMedia media items in all.
ExtractArgument ==
    /\ epc = "idle"
    /\ \E w \in 1..(MaxMedia - Weight(posts)) :
          \E p \in PostsOfWeight(w) : posts' = Append(posts, p)
    /\ UNCHANGED <<video_settings, manifest, epc>>
    /\ UNCHANGED <<fetchVars, selectVars, dedupVars, detectVars, downloadVars, runVars>>

\* line 79: the call
ExtractCall ==
    /\ epc = "idle"
    /\ \E st \in Settings : video_settings' = st
    /\ epc' = "call"
    /\ UNCHANGED <<posts, manifest, fetchVars, selectVars, dedupVars, detectVars, downloadVars, runVars>>

\* lines 81-132: the body, to the return
ExtractReturn ==
    /\ epc = "call"
    /\ manifest' = extract_media_from_posts(posts, video_settings)
    /\ epc' = "done"
    /\ UNCHANGED <<posts, video_settings, fetchVars, selectVars, dedupVars, detectVars, downloadVars, runVars>>

-----------------------------------------------------------------------------
(* MediaDownloader (src/src/downloaders/media_downloader.py) *)

\* f"{n:03d}" and f"{n:02d}" for n >= 0: decimal digits, padded with zeros on
\* the left up to the width
ZeroPad(n, width) ==
    LET digits == ToString(n)
    IN  IF n < 10 /\ width >= 3 THEN "00" \o digits
        ELSE IF n < 10 /\ width = 2 THEN "0" \o digits
        ELSE IF n < 100 /\ width >= 3 THEN "0" \o digits
        ELSE digits

\* A path of the download folder is its file name, split as pathlib splits
\* it: the stem and the suffix (the last dot and what follows).
FileName(filepath) == filepath.stem \o filepath.suffix

\* lines 26-41, with the name split into stem and suffix
generate_filename(media_item) ==
    LET post_index  == Get(media_item, "post_index", 1)
        media_index == Get(media_item, "media_index", 1)
        media_type  == Get(media_item, "type", "unknown")
        base        == "post_" \o ZeroPad(post_index, 3)
    IN  IF media_type = "image"
        THEN [stem   |-> base \o (IF media_index > 1
                                  THEN "_img_" \o ZeroPad(media_index, 2)
                                  ELSE "_img"),
              suffix |-> ".jpg"]
        ELSE IF media_type = "video"
        THEN [stem   |-> base \o (IF media_index > 1
                                  THEN "_video_" \o ZeroPad(media_index, 2)
                                  ELSE "_video"),
              suffix |-> ".mp4"]
        ELSE [stem |-> base \o "_unknown", suffix |-> ".bin"]

\* lines 52, 55: filepath.with_name(f"{stem}_{counter}{suffix}")
WithCounter(filepath, counter) ==
    [stem   |-> filepath.stem \o "_" \o ToString(counter),
     suffix |-> filepath.suffix]

\* lines 50-53: the first counter, from `counter` on, whose name is free
RECURSIVE FreeCounter(_, _, _)
FreeCounter(filepath, fs, counter) ==
    IF FileName(WithCounter(filepath, counter)) \in fs
    THEN FreeCounter(filepath, fs, counter + 1)
    ELSE counter

\* lines 43-55, fs being the names of the files of the folder
handle_filename_collision(filepath, fs) ==
    IF FileName(filepath) \notin fs
    THEN filepath
    ELSE WithCounter(filepath, FreeCounter(filepath, fs, 1))

\* What can happen to one transfer (lines 70-100):
\*   get_error     session.get or raise_for_status raises, or the
\*                 content-length header is not a number (before line 81)
\*   large         the response announces more bytes than max_video_size_mb
\*   open_error    open(filepath, 'wb') raises; no file is created
\*   stream_error  the body breaks off after the file was created
\*   ok            the body is written to the end
Transfers == {"get_error", "large", "open_error", "stream_error", "ok"}

\* lines 106-107: if filepath.exists(): filepath.unlink()
Unlink(fs, filepath) == fs \ {FileName(filepath)}

\* lines 67-108: the value returned and the files of the folder afterwards
download_with_progress(url, filepath, file_type, fs, transfer) ==
    IF transfer = "get_error"
    THEN \* the except branch runs with filepath as it was passed in
         [ok |-> FALSE, files |-> Unlink(fs, filepath)]
    ELSE IF transfer = "large" /\ file_type = "video"
    THEN [ok |-> FALSE, files |-> fs]
    ELSE LET target == handle_filename_collision(filepath, fs)
         IN  IF transfer = "open_error"
             THEN [ok |-> FALSE, files |-> Unlink(fs, target)]
             ELSE IF transfer = "stream_error"
             THEN [ok |-> FALSE,
                   files |-> Unlink(fs \cup {FileName(target)}, target)]
             ELSE [ok |-> TRUE, files |-> fs \cup {FileName(target)}]

\* lines 110-121
download_media_item(media_item, fs, transfer) ==
    LET filepath  == generate_filename(media_item)
        file_type == Get(media_item, "type", "unknown")
        url       == Get(media_item, "url", None)
    IN  IF ~Truthy(url)
        THEN [ok |-> FALSE, files |-> fs]
        ELSE download_with_progress(url, filepath, file_type, fs, transfer)

\* line 123: max_retries: int = 3
DefaultMaxRetries == 3

RetryLoopOneMore(a, mr) == a <= mr

\* line 125: for attempt in range(max_retries)
RetryLoop(a, mr) == a < mr

\* ---- the inputs of the model

ImageItems ==
    {[url |-> "i1", type |-> "image", post_index |-> 1, media_index |-> 1],
     [url |-> "i2", type |-> "image", post_index |-> 1, media_index |-> 2],
     [url |-> "",   type |-> "image", post_index |-> 2, media_index |-> 1]}

VideoItems ==
    {[url |-> "v1", type |-> "video", thumbnail_url |-> "t", post_index |-> 1,
      media_index |-> 1],
     [url |-> "v2", type |-> "video", thumbnail_url |-> None, post_index |-> 2,
      media_index |-> 2]}

\* The manifests with at most MaxDownloads items in all.
MediaData ==
    {[images |-> im, videos |-> vi] :
         im \in SeqsUpTo(ImageItems, MaxDownloads),
         vi \in SeqsUpTo(VideoItems, MaxDownloads)}

\* What the folder may hold from earlier runs.
EarlierFiles == {"post_001_img.jpg", "post_001_img_1.jpg", "post_001_video.mp4"}

NoAttempt == [transfer |-> "none", ok |-> TRUE, before |-> {}, planned |-> ""]

\* The k-th item download_all_media handles: the images, then the videos
\* (lines 151, 160)
ItemAt(md, k) ==
    IF k <= Len(md.images) THEN md.images[k] ELSE md.videos[k - Len(md.images)]

TotalItems(md) == Len(md.images) + Len(md.videos)

CountAllAsImages(tally, md, k, ok) ==
    IF ok THEN [tally EXCEPT !.images = @ + 1]
    ELSE [tally EXCEPT !.failed = @ + 1]

\* lines 153-156, 162-165: the counters after the k-th item
Count(tally, md, k, ok) ==
    IF ~ok THEN [tally EXCEPT !.failed = @ + 1]
    ELSE IF k <= Len(md.images) THEN [tally EXCEPT !.images = @ + 1]
    ELSE [tally EXCEPT !.videos = @ + 1]

\* lines 133-148: download_all_media(md) is called on a folder holding fs;
\* with nothing to download it returns at once
BeginDownloadAll(md, fs) ==
    /\ wpc = "idle"
    /\ media_data' = md
    /\ files' = fs
    /\ IF TotalItems(md) = 0
       THEN /\ results' = [images |-> 0, videos |-> 0, failed |-> 0]
            /\ wpc' = "done"
       ELSE /\ results' = results
            /\ wpc' = "next"
    /\ caller' = "download_all_media"
    /\ item_no' = 1
    /\ counts' = [images |-> 0, videos |-> 0, failed |-> 0]
    /\ processed' = <<>>
    /\ UNCHANGED <<retry_item, max_retries, attempt, retry_result, calls,
                   successes, last>>

\* lines 133-148: the call, for any manifest and any folder
DownloadAllCall ==
    /\ wpc = "idle"
    /\ \E md \in MediaData, fs \in SUBSET EarlierFiles :
          /\ TotalItems(md) <= MaxDownloads
          /\ BeginDownloadAll(md, fs)
    /\ UNCHANGED <<fetchVars, selectVars, dedupVars, extractVars, detectVars, runVars>>

\* lines 151-153, 160-162: the next item of the loops, handed to
\* download_with_retry with the default max_retries
DownloadItem ==
    /\ wpc = "next"
    /\ item_no <= TotalItems(media_data)
    /\ retry_item' = ItemAt(media_data, item_no)
    /\ processed' = Append(processed, ItemAt(media_data, item_no))
    /\ max_retries' = DefaultMaxRetries
    /\ attempt' = 0
    /\ calls' = 0
    /\ successes' = 0
    /\ wpc' = "retry"
    /\ UNCHANGED <<files, media_data, item_no, counts, results, retry_result,
                   caller, last>>
    /\ UNCHANGED <<fetchVars, selectVars, dedupVars, extractVars, detectVars, runVars>>

\* line 123: download_with_retry called on its own
RetryCall ==
    /\ wpc = "idle"
    /\ \E it \in ImageItems \cup VideoItems, fs \in SUBSET EarlierFiles,
          mr \in 0..MaxRetries :
          /\ retry_item' = it
          /\ files' = fs
          /\ max_retries' = mr
    /\ caller' = "download_with_retry"
    /\ attempt' = 0
    /\ calls' = 0
    /\ successes' = 0
    /\ wpc' = "retry"
    /\ UNCHANGED <<media_data, item_no, counts, results, retry_result,
                   processed, last>>
    /\ UNCHANGED <<fetchVars, selectVars, dedupVars, extractVars, detectVars, runVars>>

\* lines 125-130: one iteration of the retry loop, one call of
\* download_media_item
RetryAttempt ==
    /\ wpc = "retry"
    /\ RetryLoop(attempt, max_retries)
    /\ \E transfer \in Transfers :
          LET r == download_media_item(retry_item, files, transfer) IN
          /\ files' = r.files
          /\ last' = [transfer |-> transfer, ok |-> r.ok, before |-> files,
                      planned |-> FileName(generate_filename(retry_item))]
          /\ calls' = calls + 1
          /\ IF r.ok
             THEN /\ successes' = successes + 1
                  /\ retry_result' = TRUE
                  /\ attempt' = attempt
                  /\ wpc' = "retried"
             ELSE /\ successes' = successes
                  /\ retry_result' = retry_result
                  /\ attempt' = attempt + 1
                  /\ wpc' = "retry"
    /\ UNCHANGED <<media_data, retry_item, max_retries, item_no, counts,
                   results, processed, caller>>
    /\ UNCHANGED <<fetchVars, selectVars, dedupVars, extractVars, detectVars, runVars>>

\* lines 125, 131: the loop is over, return False
RetryFail ==
    /\ wpc = "retry"
    /\ ~RetryLoop(attempt, max_retries)
    /\ retry_result' = FALSE
    /\ wpc' = "retried"
    /\ UNCHANGED <<files, media_data, retry_item, max_retries, attempt,
                   item_no, counts, results, processed, caller, calls,
                   successes, last>>
    /\ UNCHANGED <<fetchVars, selectVars, dedupVars, extractVars, detectVars, runVars>>

\* lines 153-157, 162-166: the item is counted, the loop moves on
DownloadCount ==
    /\ wpc = "retried"
    /\ caller = "download_all_media"
    /\ counts' = Count(counts, media_data, item_no, retry_result)
    /\ item_no' = item_no + 1
    /\ wpc' = "next"
    /\ UNCHANGED <<files, media_data, retry_item, max_retries, attempt,
                   results, retry_result, processed, caller, calls, successes,
                   last>>
    /\ UNCHANGED <<fetchVars, selectVars, dedupVars, extractVars, detectVars, runVars>>

\* lines 168-178: both loops are over
DownloadAllReturn ==
    /\ wpc = "next"
    /\ item_no > TotalItems(media_data)
    /\ results' = counts
    /\ wpc' = "done"
    /\ UNCHANGED <<files, media_data, retry_item, max_retries, attempt,
                   item_no, counts, retry_result, processed, caller, calls,
                   successes, last>>
    /\ UNCHANGED <<fetchVars, selectVars, dedupVars, extractVars, detectVars, runVars>>

-----------------------------------------------------------------------------
(* InstagramDownloader.run (src/src/main.py) *)

\* line 46: if not posts
NoPosts(fetched) == Len(fetched) = 0

NoMediaNever(md) == FALSE

\* lines 51-54: image_count == 0 and video_count == 0
NoMedia(md) == Len(md.images) = 0 /\ Len(md.videos) = 0

\* What fetch_user_posts may hand back to run: the posts of a profile, at
\* most MaxRunPosts of them (none when the first page fails or is empty).
RunPosts ==
    {[node |-> ImgA], [node |-> Vid], [node |-> Unknown],
     CarouselPost(<<ImgB, Vid2>>)}

\* lines 22-43: the configuration is read, the cache files are cleared, the
\* extractor is built; any of these raising ends in the except branch
\* (lines 81-83)
RunStart ==
    /\ rpc = "idle"
    /\ \E st \in Settings, raised \in BOOLEAN :
          /\ video_settings' = st
          /\ IF raised
             THEN rpc' = "done" /\ run_result' = FALSE
             ELSE rpc' = "fetch" /\ run_result' = run_result
    /\ UNCHANGED <<posts, manifest, epc, run_steps>>
    /\ UNCHANGED <<fetchVars, selectVars, dedupVars, detectVars, downloadVars>>

\* lines 45-48: posts = extractor.fetch_user_posts(username)
RunFetch ==
    /\ rpc = "fetch"
    /\ run_steps' = Append(run_steps, "fetch")
    /\ \E fetched \in SeqsUpTo(RunPosts, MaxRunPosts) :
          /\ posts' = fetched
          /\ IF NoPosts(fetched)
             THEN rpc' = "done" /\ run_result' = FALSE
             ELSE rpc' = "extract" /\ run_result' = run_result
    /\ UNCHANGED <<video_settings, manifest, epc>>
    /\ UNCHANGED <<fetchVars, selectVars, dedupVars, detectVars, downloadVars>>

\* lines 50-56: media_data = extractor.extract_media_from_posts(...)
RunExtract ==
    /\ rpc = "extract"
    /\ run_steps' = Append(run_steps, "extract")
    /\ LET md == extract_media_from_posts(posts, video_settings) IN
          /\ manifest' = md
          /\ IF NoMedia(md)
             THEN rpc' = "done" /\ run_result' = FALSE
             ELSE rpc' = "download" /\ run_result' = run_result
    /\ epc' = "done"
    /\ UNCHANGED <<posts, video_settings>>
    /\ UNCHANGED <<fetchVars, selectVars, dedupVars, detectVars, downloadVars>>

\* lines 63-66: the downloader is built (mkdir may raise, lines 81-83) and
\* download_all_media(media_data) is called
RunDownload ==
    /\ rpc = "download"
    /\ run_steps' = Append(run_steps, "download")
    /\ \/ /\ rpc' = "done"
          /\ run_result' = FALSE
          /\ UNCHANGED downloadVars
       \/ /\ \E fs \in SUBSET EarlierFiles : BeginDownloadAll(manifest, fs)
          /\ rpc' = "downloading"
          /\ run_result' = run_result
    /\ UNCHANGED <<fetchVars, selectVars, dedupVars, extractVars, detectVars>>

\* lines 68-79: download_all_media has returned; the summary is printed
\* (lines 81-83 if that raises) and run returns True
RunReturn ==
    /\ rpc = "downloading"
    /\ wpc = "done"
    /\ \E raised \in BOOLEAN : run_result' = ~raised
    /\ rpc' = "done"
    /\ UNCHANGED run_steps
    /\ UNCHANGED <<fetchVars, selectVars, dedupVars, extractVars, detectVars,
                   downloadVars>>

-----------------------------------------------------------------------------
(* Specifications *)

IdleFetch ==
    /\ max_pages = 0
    /\ page = 1
    /\ after_cursor = None
    /\ all_posts = <<>>
    /\ fpc = "idle"
    /\ requests = <<>>

IdleSelect ==
    /\ video_versions = <<>>
    /\ preference = None
    /\ selected = NoneDict
    /\ spc = "idle"

IdleDedup ==
    /\ media_list = <<>>
    /\ unique_media = <<>>
    /\ dpc = "idle"

IdleExtract ==
    /\ posts = <<>>
    /\ video_settings = EmptyDict
    /\ manifest = [images |-> <<>>, videos |-> <<>>]
    /\ epc = "idle"

IdleDetect ==
    /\ detect_node = EmptyDict
    /\ detected = None
    /\ tpc = "idle"

IdleDownload ==
    /\ files = {}
    /\ media_data = [images |-> <<>>, videos |-> <<>>]
    /\ item_no = 1
    /\ counts = [images |-> 0, videos |-> 0, failed |-> 0]
    /\ results = [images |-> 0, videos |-> 0, failed |-> 0]
    /\ processed = <<>>
    /\ retry_item = EmptyDict
    /\ max_retries = DefaultMaxRetries
    /\ attempt = 0
    /\ retry_result = FALSE
    /\ calls = 0
    /\ successes = 0
    /\ last = NoAttempt
    /\ caller = None
    /\ wpc = "idle"

IdleRun ==
    /\ run_steps = <<>>
    /\ run_result = FALSE
    /\ rpc = "idle"

Init ==
    /\ IdleFetch /\ IdleSelect /\ IdleDedup /\ IdleExtract /\ IdleDetect
    /\ IdleDownload /\ IdleRun

NextFetch == FetchStart \/ FetchPage \/ FetchReturn

SpecFetch == Init /\ [][NextFetch]_vars

\* The call runs to its end: every request returns or raises within its
\* timeout (line 257), so an iteration that can be taken is taken.
SpecFetchFair == SpecFetch /\ WF_vars(NextFetch)

NextSelect == SelectCall \/ SelectReturn

SpecSelect == Init /\ [][NextSelect]_vars

NextDedup == DedupCall \/ DedupReturn

SpecDedup == Init /\ [][NextDedup]_vars

NextExtract == ExtractArgument \/ ExtractCall \/ ExtractReturn

SpecExtract == Init /\ [][NextExtract]_vars

NextDetect == DetectCall \/ DetectReturn

SpecDetect == Init /\ [][NextDetect]_vars

NextDownload ==
    \/ DownloadAllCall \/ DownloadItem \/ RetryAttempt \/ RetryFail
    \/ DownloadCount \/ DownloadAllReturn

SpecDownload == Init /\ [][NextDownload]_vars

NextRetry == RetryCall \/ RetryAttempt \/ RetryFail

SpecRetry == Init /\ [][NextRetry]_vars

\* run, with the steps of the download_all_media call it makes
NextRun ==
    \/ RunStart \/ RunFetch \/ RunExtract \/ RunDownload
    \/ DownloadItem \/ RetryAttempt \/ RetryFail \/ DownloadCount
    \/ DownloadAllReturn
    \/ RunReturn

SpecRun == Init /\ [][NextRun]_vars

-----------------------------------------------------------------------------
(* Properties of fetch_user_posts *)

\* The concatenation, in request order, of the edges of the pages received.
RECURSIVE ConcatEdges(_)
ConcatEdges(log) ==
    IF log = <<>>
    THEN <<>>
    ELSE LET r == log[Len(log)].response
         IN  ConcatEdges(SubSeq(log, 1, Len(log) - 1))
                 \o (IF r.kind = "page" THEN r.edges ELSE <<>>)

\* A response with at least one edge, has_next_page = true and a usable cursor.
Continuing(resp) ==
    /\ resp.kind = "page"
    /\ Len(resp.edges) >= 1
    /\ resp.page_info # NoneDict
    /\ Get(resp.page_info, "has_next_page", FALSE)
    /\ Truthy(Get(resp.page_info, "end_cursor", None))

\* A response with at least one edge that reports has_next_page = false.
FinalPage(resp) ==
    /\ resp.kind = "page"
    /\ Len(resp.edges) >= 1
    /\ resp.page_info # NoneDict
    /\ ~Get(resp.page_info, "has_next_page", FALSE)

\* A failed fetch: the request raised, the status is not 200, or the body
\* does not decode to a timeline connection.
FailedFetch(resp) ==
    resp.kind \in {"request_error", "status", "bad_json", "null_data"}

AllContinuing(k) == \A i \in 1..k : Continuing(requests[i].response)

\* C1: when every fetch succeeds with at least one edge, has_next_page = true
\* and a non-empty end_cursor, fetch_user_posts(max_pages = N) never issues
\* more than N page requests, has issued exactly N when it returns, requests
\* the pages in order, and its accumulator is the concatenation in page order
\* of the edges received.
C1_MaxPagesRespected ==
    (max_pages >= 0 /\ AllContinuing(Len(requests))) =>
        /\ Len(requests) <= max_pages
        /\ \A i \in 1..Len(requests) : requests[i].page = i
        /\ all_posts = ConcatEdges(requests)
        /\ (fpc = "done" => Len(requests) = max_pages)

C1_Witness ==
    /\ fpc = "done"
    /\ max_pages = 3
    /\ Len(requests) = 3
    /\ AllContinuing(3)
    /\ Len(all_posts) = 3 * MaxEdges

\* C2: when page k is the first page that reports has_next_page = false and
\* pages 1..k each carry at least one edge, the request for page k is the
\* last one issued, the call has returned, and the result is exactly the
\* edges of pages 1..k in order.
C2_StopsAtLastPage ==
    \A k \in 1..Len(requests) :
        (AllContinuing(k - 1) /\ FinalPage(requests[k].response)) =>
            /\ Len(requests) = k
            /\ fpc = "done"
            /\ all_posts = ConcatEdges(SubSeq(requests, 1, k))

C2_Witness ==
    /\ Len(requests) = 2
    /\ max_pages = 3
    /\ AllContinuing(1)
    /\ FinalPage(requests[2].response)
    /\ Truthy(Get(requests[2].response.page_info, "end_cursor", None))
    /\ fpc = "done"
    /\ Len(all_posts) = 2 * MaxEdges

MissingCursor(resp) ==
    /\ resp.kind = "page"
    /\ Len(resp.edges) >= 1
    /\ resp.page_info # NoneDict
    /\ Get(resp.page_info, "has_next_page", FALSE)
    /\ ~Truthy(Get(resp.page_info, "end_cursor", None))

\* C12: the first page request carries no cursor; every later request
\* carries exactly the end_cursor of the response to the request just before
\* it; a non-empty page that reports has_next_page = true without a usable
\* end_cursor is the last one requested.
C12_CursorChain ==
    /\ Len(requests) >= 1 => requests[1].after = None
    /\ \A i \in 2..Len(requests) :
          /\ requests[i - 1].response.kind = "page"
          /\ requests[i - 1].response.page_info # NoneDict
          /\ requests[i].after
                 = Get(requests[i - 1].response.page_info, "end_cursor", None)
    /\ \A k \in 1..Len(requests) :
          MissingCursor(requests[k].response) =>
              Len(requests) = k /\ fpc = "done"

C12_Witness ==
    /\ max_pages = 3
    /\ Len(requests) = 2
    /\ AllContinuing(1)
    /\ requests[1].after = None
    /\ requests[2].after = CursorOf(1)
    /\ MissingCursor(requests[2].response)
    /\ fpc = "done"

\* The largest number of page requests a call with max_pages = mp may issue.
FetchBudget(mp) == IF mp > 0 THEN mp ELSE 0

\* C13: whatever the responses are, fetch_user_posts issues at most
\* max_pages page requests (none when max_pages <= 0) and returns; what it
\* returns is the concatenation, in request order, of the edges of every page
\* it received, each edge once.
C13_TerminatesWithAllEdges ==
    /\ [](Len(requests) <= FetchBudget(max_pages))
    /\ [](fpc = "done" => all_posts = ConcatEdges(requests))
    /\ <>(fpc = "done")

C13_Witness ==
    /\ fpc = "done"
    /\ max_pages = 3
    /\ Len(requests) = 3
    /\ AllContinuing(1)
    /\ requests[2].response.kind = "page"
    /\ Len(requests[2].response.edges) = 1
    /\ requests[3].response.kind = "status"
    /\ Len(all_posts) = MaxEdges + 1

\* A page that decoded and carries no edge.
EmptyPage(resp) == resp.kind = "page" /\ Len(resp.edges) = 0

\* C14: a page with zero edges is the last one requested, whatever its
\* page_info says, and the call returns what it had accumulated before.
C14_EmptyPageStops ==
    \A k \in 1..Len(requests) :
        EmptyPage(requests[k].response) =>
            /\ Len(requests) = k
            /\ fpc = "done"
            /\ all_posts = ConcatEdges(SubSeq(requests, 1, k - 1))

C14_Witness ==
    /\ max_pages = 3
    /\ Len(requests) = 2
    /\ AllContinuing(1)
    /\ EmptyPage(requests[2].response)
    /\ Get(requests[2].response.page_info, "has_next_page", FALSE)
    /\ Truthy(Get(requests[2].response.page_info, "end_cursor", None))
    /\ fpc = "done"
    /\ Len(all_posts) = MaxEdges

-----------------------------------------------------------------------------
(* Properties of select_best_video_quality *)

\* The priority lists as the specification states them.
StatedPriority(pref) ==
    IF pref = "medium" THEN <<102, 103, 101>>
    ELSE IF pref = "lowest" THEN <<101, 102, 103>>
    ELSE <<103, 102, 101>>

Carries(v, code) == "type" \in DOMAIN v /\ v["type"] = code

MinOf(S) == CHOOSE m \in S : \A x \in S : m <= x
MaxOf(S) == CHOOSE m \in S : \A x \in S : m >= x

\* C4: select_best_video_quality returns the first rendition, in list order,
\* whose type code is the earliest entry of the preference's priority list
\* that some rendition carries (an unknown preference uses the highest
\* ordering); the first rendition when none carries a listed code; None for
\* the empty list.
C4_SelectsEarliestPriority ==
    spc = "done" =>
        LET prio    == StatedPriority(preference)
            present == {i \in 1..3 : \E j \in 1..Len(video_versions) :
                                         Carries(video_versions[j], prio[i])}
        IN  IF video_versions = <<>> THEN selected = NoneDict
            ELSE IF present = {} THEN selected = video_versions[1]
            ELSE LET code == prio[MinOf(present)]
                     j == MinOf({k \in 1..Len(video_versions) :
                                     Carries(video_versions[k], code)})
                 IN  selected = video_versions[j]

C4_Witness ==
    /\ spc = "done"
    /\ preference = "medium"
    /\ Len(video_versions) = 3
    /\ Carries(video_versions[1], 103)
    /\ Carries(video_versions[2], 102)
    /\ Carries(video_versions[3], 102)
    /\ video_versions[2] # video_versions[3]
    /\ selected = video_versions[2]

-----------------------------------------------------------------------------
(* Properties of _remove_duplicates *)

\* The positions of the first occurrence of each url of the list.
FirstOccurrences(l) ==
    {i \in 1..Len(l) :
        /\ Truthy(Get(l[i], "url", None))
        /\ \A j \in 1..(i - 1) : Get(l[j], "url", None) # Get(l[i], "url", None)}

\* The items of l at the positions I, in the order of l.
RECURSIVE ItemsAt(_, _)
ItemsAt(l, I) ==
    IF I = {} THEN <<>>
    ELSE Append(ItemsAt(l, I \ {MaxOf(I)}), l[MaxOf(I)])

\* C10: _remove_duplicates returns exactly the first occurrence of each
\* distinct url, in the order of these first occurrences in the input, and no
\* two items of the result share a url. (An item whose url is None or empty
\* carries no url and is not kept.)
C10_KeepsFirstOccurrences ==
    dpc = "done" =>
        /\ unique_media = ItemsAt(media_list, FirstOccurrences(media_list))
        /\ \A i, j \in 1..Len(unique_media) :
               i # j => Get(unique_media[i], "url", None)
                            # Get(unique_media[j], "url", None)

C10_Witness ==
    /\ dpc = "done"
    /\ Len(media_list) = 4
    /\ \A i \in {1, 3} : Get(media_list[i], "url", None) = "b"
    /\ \A i \in {2, 4} : Get(media_list[i], "url", None) = "a"
    /\ media_list[1] # media_list[3]
    /\ unique_media = <<media_list[1], media_list[2]>>

\* C11: _remove_duplicates is idempotent: applied to its own result (the
\* result of any list, items without a url included) it returns that result
\* unchanged.
C11_DedupIdempotent ==
    dpc = "done" =>
        /\ remove_duplicates(unique_media) = unique_media
        /\ remove_duplicates(remove_duplicates(media_list))
               = remove_duplicates(media_list)

C11_Witness ==
    /\ dpc = "done"
    /\ Len(media_list) = 4
    /\ "url" \notin DOMAIN media_list[2]
    /\ \A i \in {1, 3, 4} : Get(media_list[i], "url", None) = "a"
    /\ unique_media = <<media_list[1]>>
    /\ remove_duplicates(unique_media) = <<media_list[1]>>

-----------------------------------------------------------------------------
(* Properties of extract_media_from_posts *)

\* The media nodes of the k-th post, in child order: the children of a
\* carousel, the node itself otherwise (none when the post has no node).
NodesOf(k) ==
    IF posts[k] = NoneDict \/ Get(posts[k], "node", EmptyDict) = NoneDict
    THEN <<>>
    ELSE LET node == Get(posts[k], "node", EmptyDict)
         IN  IF Get(node, "media_type", 1) = 8
             THEN Get(node, "carousel_media", <<>>)
             ELSE <<node>>

IsCarousel(k) ==
    /\ posts[k] # NoneDict
    /\ Get(posts[k], "node", EmptyDict) # NoneDict
    /\ Get(Get(posts[k], "node", EmptyDict), "media_type", 1) = 8

IsImage(n) == n # NoneDict /\ Get(n, "media_type", 1) = 1
IsVideo(n) == n # NoneDict /\ Get(n, "media_type", 1) = 2

\* The positions <<k, j>> of the media nodes of the input.
Positions ==
    {q \in (1..Len(posts)) \X (1..MaxMedia) : q[2] <= Len(NodesOf(q[1]))}

NodeAt(q) == NodesOf(q[1])[q[2]]

\* The url of the first image candidate of a node, None when there is none.
ImageUrlOf(n) ==
    IF Len(Candidates(n)) > 0 THEN Get(Candidates(n)[1], "url", None) ELSE None

\* Whether extracting the video of node n raises.
VideoRaises(n) ==
    extract_video_data(n, 1, video_settings, 1) = Raise

\* The url of the rendition chosen for a video node, None when there is none.
VideoUrlOf(n) ==
    IF Len(Get(n, "video_versions", <<>>)) = 0 \/ VideoRaises(n)
    THEN None
    ELSE Get(select_best_video_quality(n.video_versions,
                 Get(video_settings, "video_quality", "highest")), "url", None)

\* A child that yields a descriptor: an image (a video) whose extraction does
\* not raise and whose chosen candidate (rendition) has a url that no other
\* image (video) node of the input carries.
GoodImageAt(q) ==
    /\ IsImage(NodeAt(q))
    /\ ~CandidatesRaise(NodeAt(q))
    /\ Truthy(ImageUrlOf(NodeAt(q)))
    /\ \A r \in Positions \ {q} :
           IsImage(NodeAt(r)) => ImageUrlOf(NodeAt(r)) # ImageUrlOf(NodeAt(q))

GoodVideoAt(q) ==
    /\ IsVideo(NodeAt(q))
    /\ ~VideoRaises(NodeAt(q))
    /\ Truthy(VideoUrlOf(NodeAt(q)))
    /\ \A r \in Positions \ {q} :
           IsVideo(NodeAt(r)) => VideoUrlOf(NodeAt(r)) # VideoUrlOf(NodeAt(q))

\* The descriptors of a list that carry post_index p, as <<url, media_index>>.
OfPost(list, p) ==
    LET own == ItemsAt(list, {i \in 1..Len(list) : list[i].post_index = p})
    IN  [i \in 1..Len(own) |-> <<own[i].url, own[i].media_index>>]

\* The case of C5: the call has returned, videos are downloaded, the p-th
\* post is a carousel and each of its children yields a descriptor.
CarouselCase(p) ==
    /\ epc = "done"
    /\ Get(video_settings, "download_videos", TRUE)
    /\ p \in 1..Len(posts)
    /\ IsCarousel(p)
    /\ \A j \in 1..Len(NodesOf(p)) : GoodImageAt(<<p, j>>) \/ GoodVideoAt(<<p, j>>)

ImageChildren(p) == {j \in 1..Len(NodesOf(p)) : IsImage(NodesOf(p)[j])}
VideoChildren(p) == {j \in 1..Len(NodesOf(p)) : IsVideo(NodesOf(p)[j])}

\* C5 as amended: a carousel at position p whose N image children and M video
\* children each yield a descriptor gives, with download_videos = true,
\* exactly N image and M video descriptors with post_index = p, in child
\* order, each carrying as media_index the 1-based position of its child
\* among ALL the children of the carousel.
C5_CarouselByChildPosition ==
    \A p \in 1..Len(posts) :
        CarouselCase(p) =>
            /\ OfPost(manifest.images, p) =
                   ItemsAt([j \in 1..Len(NodesOf(p)) |->
                               <<ImageUrlOf(NodesOf(p)[j]), j>>],
                           ImageChildren(p))
            /\ OfPost(manifest.videos, p) =
                   ItemsAt([j \in 1..Len(NodesOf(p)) |->
                               <<VideoUrlOf(NodesOf(p)[j]), j>>],
                           VideoChildren(p))

C5_Witness ==
    /\ CarouselCase(1)
    /\ Len(NodesOf(1)) = 3
    /\ IsVideo(NodesOf(1)[1]) /\ IsImage(NodesOf(1)[2]) /\ IsImage(NodesOf(1)[3])
    /\ Len(manifest.images) = 2
    /\ Len(manifest.videos) = 1

\* C5 as stated: in the same case, the image descriptors carry media_index
\* 1..N and the video descriptors media_index 1..M, each in child order.
C5_CarouselByKindCount ==
    \A p \in 1..Len(posts) :
        CarouselCase(p) =>
            /\ Len(OfPost(manifest.images, p)) = Cardinality(ImageChildren(p))
            /\ Len(OfPost(manifest.videos, p)) = Cardinality(VideoChildren(p))
            /\ \A i \in 1..Len(OfPost(manifest.images, p)) :
                   OfPost(manifest.images, p)[i][2] = i
            /\ \A i \in 1..Len(OfPost(manifest.videos, p)) :
                   OfPost(manifest.videos, p)[i][2] = i

ImageCount == Cardinality({q \in Positions : IsImage(NodeAt(q))})
VideoCount == Cardinality({q \in Positions : IsVideo(NodeAt(q))})

\* C6: every descriptor of the manifest has a non-empty url, and neither list
\* is longer than the number of media nodes of its kind in the input, the
\* children of carousels counted.
C6_UrlsNonEmptyAndBounded ==
    epc = "done" =>
        /\ \A i \in 1..Len(manifest.images) : Truthy(manifest.images[i].url)
        /\ \A i \in 1..Len(manifest.videos) : Truthy(manifest.videos[i].url)
        /\ Len(manifest.images) <= ImageCount
        /\ Len(manifest.videos) <= VideoCount

C6_Witness ==
    /\ epc = "done"
    /\ Get(video_settings, "download_videos", TRUE)
    /\ Len(posts) = 3
    /\ posts[1].node = ImgNoUrl
    /\ posts[2].node = VidNoUrl
    /\ posts[3].node = ImgA
    /\ Len(manifest.images) = 1
    /\ manifest.videos = <<>>

\* Whether the processing of the k-th post raises.
PostRaises(k) ==
    ProcessPost(posts[k], k, <<>>, <<>>, video_settings).raised

DescriptorsOfPost(k) ==
    {i \in 1..Len(manifest.images) : manifest.images[i].post_index = k}
        \cup {i \in 1..Len(manifest.videos) : manifest.videos[i].post_index = k}

\* C7 as stated: a post whose processing raises contributes no descriptor at
\* all to the manifest.
C7_FailingPostContributesNothing ==
    epc = "done" =>
        \A k \in 1..Len(posts) : PostRaises(k) => DescriptorsOfPost(k) = {}

\* Whether descriptor d comes from the media node at the position it names.
ComesFromItsPosition(d) ==
    /\ <<d.post_index, d.media_index>> \in Positions
    /\ LET n == NodeAt(<<d.post_index, d.media_index>>)
       IN  \/ d.type = "image" /\ IsImage(n) /\ ImageUrlOf(n) = d.url
           \/ d.type = "video" /\ IsVideo(n) /\ VideoUrlOf(n) = d.url

\* C8: a post whose media-type code is none of 1, 2, 8 contributes no
\* descriptor; every descriptor carries the 1-based position of its post in
\* the input, whatever happened to the posts before it (unknown, suppressed or
\* failed); and a post with a single image whose url was not seen before
\* yields its descriptor at its position, whatever came before it.
C8_PositionalPostIndex ==
    epc = "done" =>
        /\ \A k \in 1..Len(posts) :
               (NodesOf(k) # <<>> /\ ~IsCarousel(k)
                   /\ Get(NodesOf(k)[1], "media_type", 1) \notin {1, 2, 8})
               => DescriptorsOfPost(k) = {}
        /\ \A i \in 1..Len(manifest.images) :
               ComesFromItsPosition(manifest.images[i])
        /\ \A i \in 1..Len(manifest.videos) :
               ComesFromItsPosition(manifest.videos[i])
        /\ \A k \in 1..Len(posts) :
               (~IsCarousel(k) /\ NodesOf(k) # <<>> /\ GoodImageAt(<<k, 1>>))
               => OfPost(manifest.images, k) = <<<<ImageUrlOf(NodesOf(k)[1]), 1>>>>

C8_Witness ==
    /\ epc = "done"
    /\ Get(video_settings, "download_videos", TRUE)
    /\ Len(posts) = 3
    /\ posts[1].node = Vid
    /\ posts[2].node = Unknown
    /\ posts[3].node = ImgA
    /\ Len(manifest.videos) = 1 /\ manifest.videos[1].post_index = 1
    /\ Len(manifest.images) = 1 /\ manifest.images[1].post_index = 3

\* The settings with download_videos = true and the same quality.
WithVideos(settings) ==
    [download_videos |-> TRUE,
     video_quality   |-> Get(settings, "video_quality", "highest")]

NoVideoRaises == \A q \in Positions : IsVideo(NodeAt(q)) => ~VideoRaises(NodeAt(q))

RaisesAt(q) ==
    \/ NodeAt(q) = NoneDict
    \/ IsImage(NodeAt(q)) /\ CandidatesRaise(NodeAt(q))
    \/ /\ IsVideo(NodeAt(q))
       /\ Get(video_settings, "download_videos", TRUE)
       /\ VideoRaises(NodeAt(q))

\* A child that is classified as unknown or as a carousel.
SkippedChildAt(q) ==
    /\ NodeAt(q) # NoneDict
    /\ Get(NodeAt(q), "media_type", 1) \notin {1, 2}

\* The descriptors of a list that carry post_index p and media_index j.
AtPosition(list, p, j) ==
    {i \in 1..Len(list) : list[i].post_index = p /\ list[i].media_index = j}

\* Whether a list holds a descriptor with this url at position <<p, j>> or at
\* an earlier one (the deduplication keeps the first descriptor of a url).
EmittedBy(list, url, p, j) ==
    \E i \in 1..Len(list) :
        /\ list[i].url = url
        /\ \/ list[i].post_index < p
           \/ list[i].post_index = p /\ list[i].media_index <= j

\* C16: in a carousel, a child classified as unknown or as a (nested)
\* carousel yields no descriptor, nothing of what is nested in it shows in the
\* manifest, and it does not end the processing of the carousel: every image
\* or video child with a url and with no raising child before it is in the
\* manifest (at its own position, or at the earlier position that first
\* carried its url), the children after a skipped child included.
C16_SkippedChildren ==
    epc = "done" =>
        \A p \in 1..Len(posts) :
            IsCarousel(p) =>
                /\ \A j \in 1..Len(NodesOf(p)) :
                       SkippedChildAt(<<p, j>>) =>
                           /\ AtPosition(manifest.images, p, j) = {}
                           /\ AtPosition(manifest.videos, p, j) = {}
                /\ \A i \in 1..Len(manifest.images) :
                       manifest.images[i].post_index = p =>
                           ComesFromItsPosition(manifest.images[i])
                /\ \A i \in 1..Len(manifest.videos) :
                       manifest.videos[i].post_index = p =>
                           ComesFromItsPosition(manifest.videos[i])
                /\ \A j \in 1..Len(NodesOf(p)) :
                       LET n == NodesOf(p)[j] IN
                       (\A h \in 1..j : ~RaisesAt(<<p, h>>)) =>
                           /\ (IsImage(n) /\ Truthy(ImageUrlOf(n))) =>
                                  EmittedBy(manifest.images, ImageUrlOf(n), p, j)
                           /\ (IsVideo(n) /\ Truthy(VideoUrlOf(n))
                                  /\ Get(video_settings, "download_videos", TRUE)) =>
                                  EmittedBy(manifest.videos, VideoUrlOf(n), p, j)

C16_Witness ==
    /\ epc = "done"
    /\ Len(posts) = 1
    /\ IsCarousel(1)
    /\ NodesOf(1) = <<Unknown, Nested, ImgB>>
    /\ Len(manifest.images) = 1
    /\ manifest.images[1].url = "b"
    /\ manifest.images[1].media_index = 3
    /\ manifest.videos = <<>>

\* Whether a list is in traversal order: post_index never decreases, and
\* media_index increases strictly within one post.
InTraversalOrder(list) ==
    \A i, j \in 1..Len(list) :
        i < j =>
            /\ list[i].post_index <= list[j].post_index
            /\ list[i].post_index = list[j].post_index =>
                   list[i].media_index < list[j].media_index

\* C17: each list of the manifest is in post traversal order (post_index
\* non-decreasing, media_index strictly increasing within a post), after the
\* deduplication as before it.
C17_TraversalOrder ==
    epc = "done" =>
        /\ InTraversalOrder(manifest.images)
        /\ InTraversalOrder(manifest.videos)

C17_Witness ==
    /\ epc = "done"
    /\ Len(posts) = 2
    /\ IsCarousel(1)
    /\ NodesOf(1) = <<ImgA, ImgB>>
    /\ posts[2].node = ImgA
    /\ Len(manifest.images) = 2
    /\ manifest.images[1].url = "a" /\ manifest.images[1].media_index = 1
    /\ manifest.images[2].url = "b" /\ manifest.images[2].media_index = 2

-----------------------------------------------------------------------------
(* Properties of detect_media_type *)

HasCode(n) == "media_type" \in DOMAIN n

\* C15, as stated: image exactly for the type code 1, video exactly for 2,
\* carousel exactly for 8, unknown for every node whose type code is none of
\* the three.
C15_ClassifiesByCodeOnly ==
    (tpc = "done" /\ ~Raises(detect_node)) =>
        /\ detected = "image"    <=> (HasCode(detect_node) /\ detect_node.media_type = 1)
        /\ detected = "video"    <=> (HasCode(detect_node) /\ detect_node.media_type = 2)
        /\ detected = "carousel" <=> (HasCode(detect_node) /\ detect_node.media_type = 8)
        /\ detected = "unknown"
              <=> ~(HasCode(detect_node) /\ detect_node.media_type \in {1, 2, 8})

\* C15, amended: a node that carries no type code is classified as image,
\* like the code 1; video exactly for 2, carousel exactly for 8, unknown
\* exactly for a code that is present and none of 1, 2 and 8.
C15_ClassifiesWithDefault ==
    (tpc = "done" /\ ~Raises(detect_node)) =>
        /\ detected = "image"
              <=> (~HasCode(detect_node) \/ detect_node.media_type = 1)
        /\ detected = "video"    <=> (HasCode(detect_node) /\ detect_node.media_type = 2)
        /\ detected = "carousel" <=> (HasCode(detect_node) /\ detect_node.media_type = 8)
        /\ detected = "unknown"
              <=> (HasCode(detect_node) /\ detect_node.media_type \notin {1, 2, 8})

C15_Witness ==
    /\ tpc = "done"
    /\ ~Raises(detect_node)
    /\ ~HasCode(detect_node)
    /\ "video_versions" \in DOMAIN detect_node
    /\ detected = "image"

-----------------------------------------------------------------------------
(* Properties of MediaDownloader *)

\* C18, as stated: after a call of download_media_item that returned False,
\* every file that was in the folder before the call is still there.
C18_FailureKeepsEarlierFiles ==
    ~last.ok => last.before \subseteq files

\* The largest number of calls download_with_retry may make.
RetryBudget(mr) == IF mr > 0 THEN mr ELSE 0

\* C19: download_with_retry calls download_media_item at most max_retries
\* times; a call that returns True is the last one; the value returned is
\* True exactly when a call returned True, and False after max_retries calls
\* that all returned False.
C19_RetryBounded ==
    /\ calls <= RetryBudget(max_retries)
    /\ successes <= 1
    /\ successes = 1 => (wpc = "retried" /\ last.ok)
    /\ wpc = "retried" =>
          /\ retry_result <=> successes = 1
          /\ ~retry_result => calls = RetryBudget(max_retries)

C19_Witness ==
    /\ caller = "download_with_retry"
    /\ wpc = "retried"
    /\ max_retries = 3
    /\ calls = 3
    /\ successes = 1
    /\ retry_result
    /\ last.transfer = "ok"

\* C20: download_all_media hands each image, then each video, to
\* download_with_retry once, in manifest order, whatever the outcomes; the
\* counters it returns add up to the number of items, and the images
\* (videos) counted are no more than the manifest lists.
C20_EveryItemCounted ==
    LET all == media_data.images \o media_data.videos IN
    /\ Len(processed) <= Len(all)
    /\ processed = SubSeq(all, 1, Len(processed))
    /\ wpc = "done" =>
          /\ processed = all
          /\ results.images + results.videos + results.failed = Len(all)
          /\ results.images <= Len(media_data.images)
          /\ results.videos <= Len(media_data.videos)

C20_Witness ==
    /\ wpc = "done"
    /\ Len(media_data.images) = 1
    /\ Len(media_data.videos) = 1
    /\ Truthy(media_data.images[1].url)
    /\ results = [images |-> 0, videos |-> 1, failed |-> 1]
    /\ processed = <<media_data.images[1], media_data.videos[1]>>

\* A step in which a call of download_media_item returns True.
SuccessfulDownload == calls' = calls + 1 /\ last'.ok

\* Whether name is the name the collision check must choose for the planned
\* path in a folder holding fs: the planned name when it is free, otherwise
\* the name with the smallest counter k >= 1 that is free.
SmallestFreeName(name, planned, fs) ==
    IF FileName(planned) \notin fs
    THEN name = FileName(planned)
    ELSE \E k \in 1..(Cardinality(fs) + 1) :
             /\ name = FileName(WithCounter(planned, k))
             /\ name \notin fs
             /\ \A j \in 1..(k - 1) : FileName(WithCounter(planned, j)) \in fs

\* The first half of C21: a successful download writes exactly one file,
\* under a name that was free when the collision check ran: the planned name,
\* or the one with the smallest free counter.
OpensFreeName ==
    [][SuccessfulDownload =>
          \E name \in files' \ files :
              /\ files' = files \cup {name}
              /\ SmallestFreeName(name, generate_filename(retry_item), files)]_vars

\* The second half of C21: whatever the downloads of a run do, no file that
\* is in the folder leaves it.
KeepsSavedFiles == [][files \subseteq files']_vars

\* C21, as stated: a successful download opens a name that was free (the
\* planned name, or the smallest free counter suffix), and so, after any
\* sequence of downloads, every file saved before is still in the folder:
\* two downloads planned under the same name end up in two files.
C21_NeverOverwrites == OpensFreeName /\ KeepsSavedFiles

-----------------------------------------------------------------------------
(* Properties of InstagramDownloader.run *)

Began(step) == \E i \in 1..Len(run_steps) : run_steps[i] = step

\* C22: run begins its steps in the order fetch, extract, download, each at
\* most once; extraction is begun only on a non-empty fetched list; the
\* downloader is built and called only when posts were fetched and the
\* manifest holds an image or a video; with no post or no media run returns
\* False; and run returns True only once download_all_media has returned.
C22_RunOrder ==
    /\ run_steps = SubSeq(<<"fetch", "extract", "download">>, 1, Len(run_steps))
    /\ (Began("extract") \/ epc # "idle") => Len(posts) > 0
    /\ (Began("download") \/ wpc # "idle") =>
          /\ Began("fetch") /\ Began("extract")
          /\ Len(posts) > 0
          /\ Len(manifest.images) + Len(manifest.videos) > 0
          /\ media_data = manifest \/ wpc = "idle"
    /\ (rpc = "done" /\ (Len(posts) = 0
                            \/ Len(manifest.images) + Len(manifest.videos) = 0))
          => (~run_result /\ wpc = "idle")
    /\ (rpc = "done" /\ run_result) =>
          /\ run_steps = <<"fetch", "extract", "download">>
          /\ wpc = "done"
          /\ results = counts

C22_Witness ==
    /\ rpc = "done"
    /\ run_result
    /\ Len(posts) = 2
    /\ posts[1].node = Unknown
    /\ Len(manifest.images) = 1
    /\ Len(manifest.videos) = 1
    /\ results.images + results.videos + results.failed = 2
    /\ results.failed = 1

=============================================================================
